---- MODULE Spec2Model ----
(***************************************************************************)
(* i3bar-rusty-ricer: a status line generator for i3bar.                   *)
(*                                                                         *)
(* main() creates a sysinfo::System, refreshes it once, writes the i3bar   *)
(* protocol header to stdout and spawns one worker thread that loops       *)
(* forever: run the six collectors, print the snapshot as one JSON line    *)
(* followed by a comma, sleep two seconds.  main() joins the worker.       *)
(*                                                                         *)
(* Text is modelled by TLA+ strings, stdout by the sequence of writes made *)
(* to it, each write being the sequence of tokens whose concatenation is   *)
(* the bytes written; stdout accepts every write.  Option<T> is modelled   *)
(* by a sequence of length 0 (None) or 1 (Some).                           *)
(***************************************************************************)
EXTENDS Integers, Sequences, FiniteSets, TLC

VARIABLES
    mainpc,        \* position of main(): "new_all", "refresh_all", "write_header", "spawn", "join", "exited"
    pc,            \* position of the worker closure
    sys,           \* the sysinfo::System owned by main, then moved into the worker
    calls,         \* history: the System methods called since the current iteration began
    status_lines,  \* the Vec<StatusLine> of the current iteration
    out,           \* stdout: the first write and the latest MaxLines writes after it
    panic,         \* the panic that ended a thread, "none" while there is none
    overflow_checks \* build profile: TRUE when integer overflow panics (debug), FALSE when it wraps (release)

vars == <<mainpc, pc, sys, calls, status_lines, out, panic, overflow_checks>>

-----------------------------------------------------------------------------
(* Bounds of the model *)

\* writes after the header that the model of stdout retains
MaxLines == 2

\* mounted volumes the host reports at most
MaxDisks == 2

-----------------------------------------------------------------------------
(* Option<T> *)

None == <<>>

Some(v) == <<v>>

-----------------------------------------------------------------------------
(* struct Color *)

RED == "#ea6962"

GREEN == "#a9b665"

YELLOW == "#d8a657"

BLUE == "#7daea3"

MAGENTA == "#d3869b"

CYAN == "#89b482"

(* enum Align, with its serde names *)
AlignName(a) ==
    CASE a = "Left"   -> "left"
      [] a = "Right"  -> "right"
      [] a = "Center" -> "center"

(* struct StatusLine *)
StatusLine(text, color, width, al) ==
    [full_text |-> text, color |-> color, min_width |-> width, align |-> al]

-----------------------------------------------------------------------------
(* format! helpers *)

\* {:02}
Pad2(n) == IF n < 10 THEN "0" \o ToString(n) ELSE ToString(n)

\* {:.1} of a value given in tenths
Fixed1(tenths) == ToString(tenths \div 10) \o "." \o ToString(tenths % 10)

\* n as f64 / d, rounded to one decimal, in tenths
Tenths(n, d) == (n * 10 + d \div 2) \div d

\* {:>5}: right-aligned in five columns
RECURSIVE PadLeft5(_)
PadLeft5(s) == IF Len(s) >= 5 THEN s ELSE PadLeft5(" " \o s)

-----------------------------------------------------------------------------
(* sysinfo::System, as far as main.rs uses it *)

refresh_cpu(s, load) == [s EXCEPT !.cpu = load]

refresh_memory(s, m) == [s EXCEPT !.used_memory = m.used, !.total_memory = m.total]

refresh_disks_list(s, ds) == [s EXCEPT !.disks = ds]

\* refresh_networks() reads new counters for the interfaces already listed
refresh_networks(s, ns) == [s EXCEPT !.networks = ns]

\* refresh_all() refreshes every domain, keeping the listed disks and interfaces
refresh_all(s, load, m, ds, ns) ==
    refresh_networks([refresh_memory(refresh_cpu(s, load), m) EXCEPT !.disks = ds], ns)

\* the domains a System method refreshes or reads
Domain(call) ==
    CASE call \in {"refresh_cpu", "get_global_processor_info"}          -> {"cpu"}
      [] call \in {"refresh_memory", "get_used_memory", "get_total_memory"} -> {"memory"}
      [] call \in {"refresh_disks_list", "get_disks"}                    -> {"disks"}
      [] call \in {"refresh_networks", "get_networks"}                   -> {"networks"}
      [] call = "get_long_os_version"                                    -> {"os"}
      [] call \in {"new_all", "refresh_all"}                             -> {"os", "cpu", "memory", "disks", "networks"}

IsRefresh(call) ==
    call \in {"refresh_cpu", "refresh_memory", "refresh_disks_list", "refresh_networks",
              "refresh_all", "new_all"}

\* OsStr::to_str
to_str(name) == IF name.valid THEN Some(name.text) ELSE None

Utf8(text) == [valid |-> TRUE, text |-> text]

-----------------------------------------------------------------------------
(* What the host can report.  Memory is in KB and network counters in      *)
(* bytes, as sysinfo reports them; disk space is in units of 10^6 bytes    *)
(* and CPU load in tenths of a percent.                                    *)

OsVersions == {None, Some("Linux 5.10 Arch Linux")}

CpuLoads == {37, 1000}

MemReadings == {[used |-> 4000000, total |-> 8000000]}

Disks ==
    { [name |-> Utf8("/dev/sda2"), total_space |-> 100000, available_space |-> 40000],
      [name |-> Utf8("/dev/sda1"), total_space |-> 500,    available_space |-> 200],
      [name |-> [valid |-> FALSE, text |-> ""], total_space |-> 2000, available_space |-> 1000],
      [name |-> Utf8("/dev/sda2"), total_space |-> 40000,  available_space |-> 46000] }

\* the lists of at most MaxDisks mounted volumes, no volume listed twice
DiskLists ==
    { ds \in UNION { [1..n -> Disks] : n \in 0..MaxDisks } :
        \A i, j \in DOMAIN ds : ds[i] = ds[j] => i = j }

SameDevices(ds1, ds2) ==
    /\ Len(ds1) = Len(ds2)
    /\ \A i \in DOMAIN ds1 : ds1[i].name = ds2[i].name

\* the counters of the host's two interfaces
NetLists ==
    { << [received |-> 1500000, transmitted |-> 260000],
         [received |-> 40000,   transmitted |-> 0] >> }

Clocks ==
    { [day |-> 2, month |-> 11, year |-> 2026, hour |-> 13, minute |-> 30] }

Systems ==
    { [os_version |-> v, cpu |-> load, used_memory |-> m.used, total_memory |-> m.total,
       disks |-> ds, networks |-> ns] :
        v \in OsVersions, load \in CpuLoads, m \in MemReadings, ds \in DiskLists, ns \in NetLists }

-----------------------------------------------------------------------------
(* The collectors.  Each yields the segments it returns and the System     *)
(* methods it calls, in order; those taking &mut System also yield the     *)
(* System they leave behind.  The glyphs of the labels are private-use     *)
(* code points, written here by their number.                              *)

\* os_info with the missing version unwrapped into an empty text
os_info_blank(s) ==
    [ lines |-> << StatusLine(IF s.os_version # None THEN s.os_version[1] ELSE "",
                              RED, None, None) >>,
      calls |-> << "get_long_os_version" >> ]

os_info(s) ==
    [ lines |-> << IF s.os_version # None
                     THEN StatusLine(s.os_version[1], RED, None, None)
                     ELSE StatusLine("error", RED, None, None) >>,
      calls |-> << "get_long_os_version" >> ]

cpu_usage(s, first, second) ==
    LET s2 == refresh_cpu(refresh_cpu(s, first), second)
        load == s2.cpu
    IN  [ sys   |-> s2,
          lines |-> << StatusLine("<U+F2DB> : " \o PadLeft5(Fixed1(load)) \o " %",
                                  GREEN, None, None) >>,
          calls |-> << "refresh_cpu", "refresh_cpu", "get_global_processor_info" >> ]

\* memory_usage with the colour of the collector above it
memory_usage_green(s, m) ==
    LET s2 == refresh_memory(s, m)
    IN  [ sys   |-> s2,
          lines |-> << StatusLine("<U+F85A> : " \o Fixed1(Tenths(s2.used_memory, 1000000)) \o "G / "
                                    \o Fixed1(Tenths(s2.total_memory, 1000000)) \o "G",
                                  GREEN, None, None) >>,
          calls |-> << "refresh_memory", "get_used_memory", "get_total_memory" >> ]

memory_usage(s, m) ==
    LET s2 == refresh_memory(s, m)
        usage == s2.used_memory
        total == s2.total_memory
    IN  [ sys   |-> s2,
          lines |-> << StatusLine("<U+F85A> : " \o Fixed1(Tenths(usage, 1000000)) \o "G / "
                                    \o Fixed1(Tenths(total, 1000000)) \o "G",
                                  YELLOW, None, None) >>,
          calls |-> << "refresh_memory", "get_used_memory", "get_total_memory" >> ]

\* {:.1} of (2^64 - deficit * 10^6) as f64 / 10^9, for a deficit that is a
\* multiple of 100 below 73700: 2^64 bytes are 184467440737.0955 tenths of 10^9
WrappedGB(deficit) ==
    LET low == 737 - deficit \div 100
        d3  == low \div 10
    IN  "18446744" \o (IF d3 < 10 THEN "00" ELSE IF d3 < 100 THEN "0" ELSE "")
                   \o ToString(d3) \o "." \o ToString(low % 10)

\* (disk.get_total_space() - disk.get_available_space()) as f64 / 1000000000.0
UsedGB(disk) ==
    IF disk.available_space > disk.total_space
      THEN WrappedGB(disk.available_space - disk.total_space)
      ELSE Fixed1(Tenths(disk.total_space - disk.available_space, 1000))

\* the loop without the `continue` that skips the other volumes
RECURSIVE disk_loop_unfiltered(_, _, _, _)
disk_loop_unfiltered(disks, i, disk_infos, checks) ==
    IF i > Len(disks)
      THEN [panic |-> "none", lines |-> disk_infos]
    ELSE IF to_str(disks[i].name) = None
      THEN [panic |-> "unwrap on None", lines |-> disk_infos]
    ELSE IF checks /\ disks[i].available_space > disks[i].total_space
      THEN [panic |-> "subtract with overflow", lines |-> disk_infos]
    ELSE disk_loop_unfiltered(disks, i + 1,
                   Append(disk_infos,
                          StatusLine("<U+F1C0> : " \o UsedGB(disks[i]) \o "G / "
                                        \o Fixed1(Tenths(disks[i].total_space, 1000)) \o "G",
                                     BLUE, None, None)),
                   checks)

\* the body of the for loop of storage_info, from disk i on
RECURSIVE disk_loop(_, _, _, _)
disk_loop(disks, i, disk_infos, checks) ==
    IF i > Len(disks)
      THEN [panic |-> "none", lines |-> disk_infos]
    ELSE IF to_str(disks[i].name) = None
      THEN [panic |-> "unwrap on None", lines |-> disk_infos]
    ELSE IF to_str(disks[i].name)[1] # "/dev/sda2"
      THEN disk_loop(disks, i + 1, disk_infos, checks)
    ELSE IF checks /\ disks[i].available_space > disks[i].total_space
      THEN [panic |-> "subtract with overflow", lines |-> disk_infos]
    ELSE disk_loop(disks, i + 1,
                   Append(disk_infos,
                          StatusLine("<U+F1C0> : " \o UsedGB(disks[i]) \o "G / "
                                        \o Fixed1(Tenths(disks[i].total_space, 1000)) \o "G",
                                     BLUE, None, None)),
                   checks)

storage_info(s, ds, checks) ==
    LET s2 == refresh_disks_list(s, ds)
        r  == disk_loop(s2.disks, 1, <<>>, checks)
    IN  [ sys   |-> s2,
          panic |-> r.panic,
          lines |-> r.lines,
          calls |-> << "refresh_disks_list", "get_disks" >> ]

RECURSIVE SumOf(_, _)
SumOf(networks, field) ==
    IF networks = <<>> THEN 0
    ELSE networks[1][field] + SumOf(Tail(networks), field)

\* network_usage without its sys.refresh_networks()
network_usage_stale(s, ns) ==
    LET rx == SumOf(s.networks, "received")
        tx == SumOf(s.networks, "transmitted")
    IN  [ sys   |-> s,
          lines |-> << StatusLine("<U+F019> : " \o Fixed1(Tenths(rx, 1000000)) \o "M | <U+F093> : "
                                    \o Fixed1(Tenths(tx, 1000000)) \o "M",
                                  MAGENTA, None, None) >>,
          calls |-> << "get_networks" >> ]

network_usage(s, ns) ==
    LET s2 == refresh_networks(s, ns)
        rx == SumOf(s2.networks, "received")
        tx == SumOf(s2.networks, "transmitted")
    IN  [ sys   |-> s2,
          lines |-> << StatusLine("<U+F019> : " \o Fixed1(Tenths(rx, 1000000)) \o "M | <U+F093> : "
                                    \o Fixed1(Tenths(tx, 1000000)) \o "M",
                                  MAGENTA, None, None) >>,
          calls |-> << "refresh_networks", "get_networks" >> ]

\* chrono's Timelike::hour12: (is_pm, hour from 1 to 12)
hour12(now) ==
    [pm |-> now.hour >= 12, hour |-> IF now.hour % 12 = 0 THEN 12 ELSE now.hour % 12]

\* time with align left out, like the other collectors
time_unaligned(now) ==
    [ lines |-> << StatusLine(Pad2(now.day) \o "/" \o Pad2(now.month) \o "/" \o ToString(now.year)
                                \o " " \o Pad2(hour12(now).hour) \o ":" \o Pad2(now.minute)
                                \o " " \o (IF hour12(now).pm THEN "PM" ELSE "AM") \o " ",
                              CYAN, None, None) >>,
      calls |-> <<>> ]

time(now) ==
    [ lines |-> << StatusLine(Pad2(now.day) \o "/" \o Pad2(now.month) \o "/" \o ToString(now.year)
                                \o " " \o Pad2(hour12(now).hour) \o ":" \o Pad2(now.minute)
                                \o " " \o (IF hour12(now).pm THEN "PM" ELSE "AM") \o " ",
                              CYAN, None, Some("Right")) >>,
      calls |-> <<>> ]

-----------------------------------------------------------------------------
(* serde_json::to_string of a Vec<StatusLine>, as tokens *)

Quote(text) == "\"" \o text \o "\""

\* the derived Serialize of StatusLine writes its four fields in order
SerializeStatusLine(l) ==
    << "{", "\"full_text\"", ":", Quote(l.full_text),
       ",", "\"color\"", ":", Quote(l.color),
       ",", "\"min_width\"", ":",
            IF l.min_width = None THEN "null" ELSE ToString(l.min_width[1]),
       ",", "\"align\"", ":",
            IF l.align = None THEN "null" ELSE Quote(AlignName(l.align[1])),
       "}" >>

RECURSIVE SerializeElements(_)
SerializeElements(ls) ==
    IF ls = <<>> THEN <<>>
    ELSE IF Len(ls) = 1 THEN SerializeStatusLine(ls[1])
    ELSE SerializeStatusLine(ls[1]) \o << "," >> \o SerializeElements(Tail(ls))

to_string(ls) == << "[" >> \o SerializeElements(ls) \o << "]" >>

\* the header without the bracket that opens the array
HEADER_unopened == << "{", " ", "\"version\"", ":", " ", "1", " ", "}" >>

\* b"{ \"version\": 1 }["
HEADER == << "{", " ", "\"version\"", ":", " ", "1", " ", "}", "[" >>

\* println!("{}", json): the comma after the element forgotten
println_no_comma(json) == json \o << "\n" >>

\* println!("{},", json)
println(json) == json \o << ",", "\n" >>

\* stdout as the model keeps it: the first write and the latest MaxLines after it
Retain(writes) ==
    IF Len(writes) <= 1 + MaxLines THEN writes
    ELSE << writes[1] >> \o SubSeq(writes, Len(writes) - MaxLines + 1, Len(writes))

-----------------------------------------------------------------------------
(* main() *)

\* after line 13: let mut system = sysinfo::System::new_all()
Init ==
    /\ mainpc = "refresh_all"
    /\ pc = "unspawned"
    /\ sys \in Systems
    /\ calls = << "new_all" >>
    /\ status_lines = <<>>
    /\ out = <<>>
    /\ panic = "none"
    /\ overflow_checks \in BOOLEAN

\* line 14: system.refresh_all()
RefreshAll ==
    /\ mainpc = "refresh_all"
    /\ \E load \in CpuLoads, m \in MemReadings, ds \in DiskLists, ns \in NetLists :
          /\ SameDevices(ds, sys.disks)
          /\ Len(ns) = Len(sys.networks)
          /\ sys' = refresh_all(sys, load, m, ds, ns)
    /\ calls' = Append(calls, "refresh_all")
    /\ mainpc' = "write_header"
    /\ UNCHANGED <<pc, status_lines, out, panic, overflow_checks>>

\* line 16: io::stdout().write_all(b"...").unwrap()
WriteHeader ==
    /\ mainpc = "write_header"
    /\ out' = Retain(Append(out, HEADER))
    /\ mainpc' = "spawn"
    /\ UNCHANGED <<pc, sys, calls, status_lines, panic, overflow_checks>>

\* line 17: thread::spawn(move || loop { ... })
Spawn ==
    /\ mainpc = "spawn"
    /\ mainpc' = "join"
    /\ pc' = "os_info"
    /\ UNCHANGED <<sys, calls, status_lines, out, panic, overflow_checks>>

\* line 31: handle.join().unwrap(), once the worker has panicked
JoinUnwrap ==
    /\ mainpc = "join"
    /\ pc = "panicked"
    /\ mainpc' = "exited"
    /\ UNCHANGED <<pc, sys, calls, status_lines, out, panic, overflow_checks>>

-----------------------------------------------------------------------------
(* the worker's loop *)

\* lines 18-19: a new Vec, then status_lines.push(os_info(&system))
Call_os_info ==
    /\ pc = "os_info"
    /\ status_lines' = os_info(sys).lines
    /\ calls' = os_info(sys).calls
    /\ pc' = "cpu_usage"
    /\ UNCHANGED <<mainpc, sys, out, panic, overflow_checks>>

\* line 20: status_lines.push(cpu_usage(&mut system))
Call_cpu_usage ==
    /\ pc = "cpu_usage"
    /\ \E first \in CpuLoads, second \in CpuLoads :
          LET r == cpu_usage(sys, first, second)
          IN  /\ sys' = r.sys
              /\ status_lines' = status_lines \o r.lines
              /\ calls' = calls \o r.calls
    /\ pc' = "memory_usage"
    /\ UNCHANGED <<mainpc, out, panic, overflow_checks>>

\* line 21: status_lines.push(memory_usage(&mut system))
Call_memory_usage ==
    /\ pc = "memory_usage"
    /\ \E m \in MemReadings :
          LET r == memory_usage(sys, m)
          IN  /\ sys' = r.sys
              /\ status_lines' = status_lines \o r.lines
              /\ calls' = calls \o r.calls
    /\ pc' = "storage_info"
    /\ UNCHANGED <<mainpc, out, panic, overflow_checks>>

\* line 22: status_lines.append(&mut storage_info(&mut system))
Call_storage_info ==
    /\ pc = "storage_info"
    /\ \E ds \in DiskLists :
          LET r == storage_info(sys, ds, overflow_checks)
          IN  /\ sys' = r.sys
              /\ calls' = calls \o r.calls
              /\ IF r.panic = "none"
                   THEN /\ status_lines' = status_lines \o r.lines
                        /\ pc' = "network_usage"
                        /\ panic' = panic
                   ELSE /\ status_lines' = status_lines
                        /\ pc' = "panicked"
                        /\ panic' = r.panic
    /\ UNCHANGED <<mainpc, out, overflow_checks>>

\* line 23: status_lines.push(network_usage(&mut system))
Call_network_usage ==
    /\ pc = "network_usage"
    /\ \E ns \in NetLists :
          /\ Len(ns) = Len(sys.networks)
          /\ LET r == network_usage(sys, ns)
             IN  /\ sys' = r.sys
                 /\ status_lines' = status_lines \o r.lines
                 /\ calls' = calls \o r.calls
    /\ pc' = "time"
    /\ UNCHANGED <<mainpc, out, panic, overflow_checks>>

\* line 24: status_lines.push(time())
Call_time ==
    /\ pc = "time"
    /\ \E now \in Clocks :
          /\ status_lines' = status_lines \o time(now).lines
          /\ calls' = calls \o time(now).calls
    /\ pc' = "println"
    /\ UNCHANGED <<mainpc, sys, out, panic, overflow_checks>>

\* line 25: println!("{},", serde_json::to_string(&status_lines).unwrap())
Println ==
    /\ pc = "println"
    /\ out' = Retain(Append(out, println(to_string(status_lines))))
    /\ pc' = "sleep"
    /\ UNCHANGED <<mainpc, sys, calls, status_lines, panic, overflow_checks>>

\* the sleep followed by a break out of the loop
Sleep_break ==
    /\ pc = "sleep"
    /\ pc' = "returned"
    /\ UNCHANGED <<mainpc, sys, calls, status_lines, out, panic, overflow_checks>>

\* lines 27-29: spin_sleep::sleep(2 s), then the next iteration of the loop
Sleep ==
    /\ pc = "sleep"
    /\ pc' = "os_info"
    /\ UNCHANGED <<mainpc, sys, calls, status_lines, out, panic, overflow_checks>>

Main == RefreshAll \/ WriteHeader \/ Spawn \/ JoinUnwrap

Worker ==
    \/ Call_os_info
    \/ Call_cpu_usage
    \/ Call_memory_usage
    \/ Call_storage_info
    \/ Call_network_usage
    \/ Call_time
    \/ Println
    \/ Sleep

Next == Main \/ Worker

Spec == Init /\ [][Next]_vars

\* the operating system schedules both threads
LiveSpec == Spec /\ WF_vars(Main) /\ WF_vars(Worker)

-----------------------------------------------------------------------------
(* Properties *)

\* the writes after the first one
Lines == { i \in DOMAIN out : i >= 2 }

\* the write println made last, while the worker sleeps
LastLine == out[Len(out)]

\* the bytes the specification gives for the header: {"version": 1}[
SpecifiedHeader == << "{", "\"version\"", ":", " ", "1", "}", "[" >>

\* the bytes main.rs writes: { "version": 1 }[
WrittenHeader == << "{", " ", "\"version\"", ":", " ", "1", " ", "}", "[" >>

\* C1 as stated: the first write to stdout is {"version": 1}[, it precedes
\* every snapshot line, and no later write is the header again.
C1_HeaderAsSpecified ==
    /\ out # <<>> => out[1] = SpecifiedHeader
    /\ \A i \in Lines : out[i] # SpecifiedHeader
    /\ pc # "unspawned" => out # <<>>

\* C1 amended: the first write to stdout is { "version": 1 }[ (a space inside
\* each brace), it precedes every snapshot line (the worker does not run before
\* it is written), and no later write is the header again.
C1_HeaderOnceFirst ==
    /\ out # <<>> => out[1] = WrittenHeader
    /\ \A i \in Lines : out[i] # WrittenHeader /\ out[i][1] = "["
    /\ pc # "unspawned" => out # <<>>
    /\ mainpc \in {"refresh_all", "write_header"} => out = <<>>

C1_Witness == pc = "sleep" /\ Len(out) >= 3 /\ out[1] = WrittenHeader

\* the texts each collector can produce from the readings of the model
OsTexts == {"error", "Linux 5.10 Arch Linux"}

CpuTexts == {"<U+F2DB> :   3.7 %", "<U+F2DB> : 100.0 %"}

MemoryTexts == {"<U+F85A> : 4.0G / 8.0G"}

StorageTexts == {"<U+F1C0> : 60.0G / 100.0G", "<U+F1C0> : 18446744067.7G / 40.0G"}

NetworkTexts == {"<U+F019> : 1.5M | <U+F093> : 0.3M"}

ClockTexts == {"02/11/2026 01:30 PM "}

\* the mounted volumes whose device name is the configured path
Matched == { i \in DOMAIN sys.disks : sys.disks[i].name = [valid |-> TRUE, text |-> "/dev/sda2"] }

\* C2: every snapshot that is printed holds, in this order, the OS identity, the
\* CPU load, the memory usage, one storage segment per mounted volume named
\* /dev/sda2, the network throughput and the clock: 5 + N segments, N the number
\* of such volumes, 5 when there is none.
C2_SegmentOrder ==
    pc \in {"println", "sleep"} =>
        LET n == Cardinality(Matched)
        IN  /\ Len(status_lines) = 5 + n
            /\ status_lines[1].full_text \in OsTexts
            /\ status_lines[2].full_text \in CpuTexts
            /\ status_lines[3].full_text \in MemoryTexts
            /\ \A k \in 4..(3 + n) : status_lines[k].full_text \in StorageTexts
            /\ status_lines[4 + n].full_text \in NetworkTexts
            /\ status_lines[5 + n].full_text \in ClockTexts
            /\ pc = "sleep" => LastLine = println(to_string(status_lines))

C2_Witness == pc = "sleep" /\ Cardinality(Matched) = 2 /\ Len(status_lines) = 7

Brackets == {"{", "}", "[", "]"}

\* whether a bracket follows token i of w, and the position of the first one
HasBracketAfter(w, i) == \E j \in (i + 1)..Len(w) : w[j] \in Brackets

NextBracket(w, i) ==
    CHOOSE j \in (i + 1)..Len(w) :
        w[j] \in Brackets /\ \A k \in (i + 1)..(j - 1) : w[k] \notin Brackets

\* from token i on, w is objects without nesting, separated by commas, then the
\* bracket that closes the array, then nothing
RECURSIVE ObjectsThenClose(_, _)
ObjectsThenClose(w, i) ==
    /\ i < Len(w)
    /\ w[i] = "{"
    /\ HasBracketAfter(w, i)
    /\ LET e == NextBracket(w, i)
       IN  /\ w[e] = "}"
           /\ e < Len(w)
           /\ \/ w[e + 1] = "]" /\ e + 1 = Len(w)
              \/ w[e + 1] = "," /\ ObjectsThenClose(w, e + 2)

\* w is the tokens of one JSON array of objects
ArrayOfObjects(w) ==
    /\ Len(w) >= 2
    /\ w[1] = "["
    /\ \/ Len(w) = 2 /\ w[2] = "]"
       \/ ObjectsThenClose(w, 2)

\* C3: every write after the header is one line: a JSON array of objects, then a
\* comma, then a newline; the bracket the header opens is never closed, so of any
\* two consecutive lines both end with a comma and neither follows a closing ].
C3_LineFraming ==
    \A i \in Lines :
        LET w == out[i]
        IN  /\ Len(w) >= 4
            /\ w[Len(w)] = "\n"
            /\ w[Len(w) - 1] = ","
            /\ ArrayOfObjects(SubSeq(w, 1, Len(w) - 2))
            /\ out[i - 1][Len(out[i - 1])] \in {"[", "\n"}

C3_Witness ==
    /\ Len(out) >= 3
    /\ out[2][Len(out[2]) - 1] = ","
    /\ out[3][Len(out[3]) - 1] = ","

\* the positions of token t in the write w
Positions(w, t) == { j \in DOMAIN w : w[j] = t }

\* C4 as stated: a serialized segment has the key min_width only when the field
\* is set and the key align only when the field is set; an unset field is left
\* out and never written as null.
C4_UnsetKeysOmitted ==
    /\ \A i \in Lines : Positions(out[i], "null") = {}
    /\ pc = "sleep" =>
          /\ Cardinality(Positions(LastLine, "\"min_width\""))
                = Cardinality({k \in DOMAIN status_lines : status_lines[k].min_width # None})
          /\ Cardinality(Positions(LastLine, "\"align\""))
                = Cardinality({k \in DOMAIN status_lines : status_lines[k].align # None})

\* what the code does instead: every object has both keys, null when unset
C4_UnsetKeysNull ==
    pc = "sleep" =>
        /\ Cardinality(Positions(LastLine, "\"min_width\"")) = Len(status_lines)
        /\ Cardinality(Positions(LastLine, "\"align\"")) = Len(status_lines)
        /\ Cardinality(Positions(LastLine, "null")) = 2 * Len(status_lines) - 1

C6_NoCollectorAborts == pc # "panicked" /\ panic = "none"

\* C7: of the segments of a snapshot only the clock, the last one, has align
\* set, to Right, written "right"; no segment has min_width set.
C7_OnlyClockAligned ==
    /\ \A k \in DOMAIN status_lines :
          /\ status_lines[k].min_width = <<>>
          /\ status_lines[k].align \in {<<>>, << "Right" >>}
          /\ status_lines[k].align # <<>> <=> status_lines[k].full_text \in ClockTexts
    /\ pc \in {"println", "sleep"} =>
          /\ status_lines[Len(status_lines)].align = << "Right" >>
          /\ \A k \in 1..(Len(status_lines) - 1) : status_lines[k].align = <<>>
    /\ \A i \in Lines :
          /\ Positions(out[i], "\"right\"") = {Len(out[i]) - 4}
          /\ out[i][Len(out[i]) - 6] = "\"align\""
          /\ Positions(out[i], "\"left\"") \cup Positions(out[i], "\"center\"") = {}

C7_Witness ==
    /\ pc = "sleep"
    /\ Len(status_lines) >= 6
    /\ status_lines[Len(status_lines)].align = << "Right" >>

Palette == {"#ea6962", "#a9b665", "#d8a657", "#7daea3", "#d3869b", "#89b482"}

\* C8: the colour of every segment is one of the six palette values, and always
\* the one of its collector: OS identity #ea6962, CPU #a9b665, memory #d8a657,
\* storage #7daea3, network #d3869b, clock #89b482.
C8_FixedPalette ==
    /\ \A k \in DOMAIN status_lines :
          LET l == status_lines[k]
          IN  /\ l.color \in Palette
              /\ l.full_text \in OsTexts      => l.color = "#ea6962"
              /\ l.full_text \in CpuTexts     => l.color = "#a9b665"
              /\ l.full_text \in MemoryTexts  => l.color = "#d8a657"
              /\ l.full_text \in StorageTexts => l.color = "#7daea3"
              /\ l.full_text \in NetworkTexts => l.color = "#d3869b"
              /\ l.full_text \in ClockTexts   => l.color = "#89b482"
    /\ \A i \in Lines : \A j \in Positions(out[i], "\"color\"") :
          out[i][j + 2] \in { "\"" \o c \o "\"" : c \in Palette }

C8_Witness ==
    /\ pc = "sleep"
    /\ { status_lines[k].color : k \in DOMAIN status_lines } = Palette

MetricDomains == {"cpu", "memory", "disks", "networks"}

\* C9: in every cycle each read of the CPU, memory, disk or network domain comes
\* after a refresh of that domain made in the same cycle, with only calls on
\* that domain in between; a cycle that reaches println has read all four.
C9_RefreshBeforeRead ==
    /\ pc \notin {"unspawned"} =>
          \A i \in DOMAIN calls :
              (~IsRefresh(calls[i]) /\ Domain(calls[i]) \subseteq MetricDomains) =>
                  \E j \in 1..(i - 1) :
                      /\ IsRefresh(calls[j])
                      /\ \A k \in j..i : Domain(calls[k]) = Domain(calls[i])
    /\ pc \in {"println", "sleep"} =>
          \A d \in MetricDomains :
              \E i \in DOMAIN calls : ~IsRefresh(calls[i]) /\ Domain(calls[i]) = {d}

C9_Witness ==
    /\ pc = "sleep"
    /\ Len(out) >= 3
    /\ calls = << "get_long_os_version", "refresh_cpu", "refresh_cpu",
                  "get_global_processor_info", "refresh_memory", "get_used_memory",
                  "get_total_memory", "refresh_disks_list", "get_disks",
                  "refresh_networks", "get_networks" >>

\* C10: the worker starts once the system is refreshed and the header written,
\* and its loop has no exit: while no collector panics every cycle prints one
\* line before it sleeps (stdout changes in no other step of the loop), every
\* sleep is followed by a new cycle, lines are printed again and again, and
\* main stays in join.
C10_RunsForever ==
    /\ [][ /\ pc' = "sleep" /\ pc # "sleep" =>
                /\ pc = "println"
                /\ \E w \in {println(to_string(status_lines))} :
                      /\ out' = Retain(Append(out, w))
                      /\ Cardinality(Positions(w, "\n")) = 1
           /\ pc \notin {"unspawned", "println"} => out' = out
           /\ pc = "sleep" => pc' \in {"sleep", "os_info"}
           /\ pc' \notin {"unspawned", "os_info", "cpu_usage", "memory_usage", "storage_info",
                          "network_usage", "time", "println", "sleep"}
                => pc' = "panicked" /\ panic' \in {"unwrap on None", "subtract with overflow"}
         ]_vars
    /\ [](pc \notin {"unspawned", "panicked"} => mainpc = "join" /\ out # <<>>)
    /\ <>(pc = "panicked") \/ ([]<>(pc = "sleep") /\ []<>(pc = "println"))

C10_Witness ==
    /\ mainpc = "join"
    /\ pc = "os_info"
    /\ Len(out) = 1 + MaxLines
    /\ panic = "none"

====
